---- MODULE Spec2Model ----
(***************************************************************************)
(* Media upload and publish pipeline of instauto (PostMixin.post_post and  *)
(* PostMixin.post_video with their helpers).  Every call of the transport  *)
(* (_request) is a blocking point: a call issues a request, waits, and     *)
(* continues with the code that follows when the transport returns, or     *)
(* stops when the transport raises.                                        *)
(***************************************************************************)
EXTENDS Integers, Sequences, FiniteSets, TLC

\* ------------------------------------------------------------------ bounds
\* largest number of full chunks of a modelled video file
MaxChunks == 2

\* largest number of publish calls the caller makes with one spec object
MaxCalls == 2

\* ------------------------------------------------------- program constants
\* chunksize passed to _bytes_from_file
ChunkSize == 1024

\* quality or 70
DefaultQuality == 70

Calls == {1, 2}

None == "None"

\* ------------------------------------------------------------ python dicts
EmptyDict == [k \in {} |-> None]

\* {**a, **b}: the right operand wins on a common key
Merge(a, b) ==
  [k \in (DOMAIN a) \union (DOMAIN b) |-> IF k \in DOMAIN b THEN b[k] ELSE a[k]]

\* json.dumps: an injective encoding of the value
json_dumps(x) == <<"json", x>>

\* str() of a python value: a str is itself, an int is its decimal numeral
Digits == <<"0", "1", "2", "3", "4", "5", "6", "7", "8", "9">>

RECURSIVE NatToStr(_)
NatToStr(n) ==
  IF n < 10 THEN <<Digits[n + 1]>>
  ELSE NatToStr(n \div 10) \o <<Digits[(n % 10) + 1]>>

IntToStr(n) == IF n < 0 THEN <<"-">> \o NatToStr(0 - n) ELSE NatToStr(n)

\* python values that are None, an int or a str (a sequence of characters),
\* tagged with their type
PyNone == [t |-> "NoneType", v |-> <<>>]
PyInt(n) == [t |-> "int", v |-> n]
PyStr(s) == [t |-> "str", v |-> s]

\* str(x) of an int or a str
str(x) == PyStr(IF x.t = "int" THEN IntToStr(x.v) ELSE x.v)

\* ------------------------------------------------------------- helpers.py
\* index of the last "." of a character sequence, 0 when there is none
LastDot(s) ==
  IF \E i \in DOMAIN s : s[i] = "."
  THEN CHOOSE i \in DOMAIN s : s[i] = "." /\ \A j \in DOMAIN s : s[j] = "." => j <= i
  ELSE 0

\* pathlib: PurePath.suffix, the last dot of the name and what follows it
PathSuffix(s) ==
  LET i == LastDot(s)
  IN IF i > 1 /\ i < Len(s) THEN SubSeq(s, i, Len(s)) ELSE <<>>

\* p.split('.')[-1]
SplitLast(s) == SubSeq(s, LastDot(s) + 1, Len(s))

get_image_type(p) == IF p.isPath THEN PathSuffix(p.s) ELSE SplitLast(p.s)

retry_context ==
  [num_reupload |-> 0, num_step_auto_retry |-> 0, num_step_manual_retry |-> 0]

build_default_rupload_params(upload_id, quality) ==
  [upload_id |-> upload_id,
   media_type |-> 1,
   retry_context |-> json_dumps(retry_context),
   xsharing_user_ids |-> json_dumps(<<>>),
   image_compression |-> json_dumps([lib_name |-> "moz", lib_version |-> "3.1.m",
                                     quality |-> IntToStr(quality)])]

\* input_dict.pop(k) for k in to_remove; pop of an absent key raises KeyError,
\* which the except clause (AttributeError) does not catch
RECURSIVE remove_from_dict(_, _)
remove_from_dict(input_dict, to_remove) ==
  IF to_remove = <<>> THEN [raised |-> None, dict |-> input_dict]
  ELSE IF Head(to_remove) \notin DOMAIN input_dict
       THEN [raised |-> "KeyError", dict |-> input_dict]
       ELSE remove_from_dict([k \in (DOMAIN input_dict) \ {Head(to_remove)} |-> input_dict[k]],
                             Tail(to_remove))

\* ------------------------------------------------------------------ inputs
Chars(a, b, c, d, e, f) == SelectSeq(<<a, b, c, d, e, f>>, LAMBDA x : x # "")

ThumbnailPaths ==
  { [isPath |-> FALSE, s |-> Chars("t", ".", "j", "p", "g", "")],
    [isPath |-> FALSE, s |-> Chars("t", ".", "j", "p", "e", "g")],
    [isPath |-> FALSE, s |-> Chars("t", ".", "p", "n", "g", "")],
    [isPath |-> FALSE, s |-> Chars("t", ".", "g", "i", "f", "")],
    [isPath |-> TRUE,  s |-> Chars("t", ".", "j", "p", "g", "")],
    [isPath |-> TRUE,  s |-> Chars("t", ".", "p", "n", "g", "")] }

\* sizes of the video file: around every multiple of the chunk size
FileSizes ==
  { n \in 0..(MaxChunks * ChunkSize) : (n % ChunkSize) \in {0, 1, ChunkSize - 1} }

\* keys of PostFeedVideo.to_dict()
VideoFields ==
  { "path", "thumbnail_path", "creation_logger_session_id", "multi_sharing",
    "audio_muted", "height", "width", "quality_info", "pdg_hash_info",
    "upload_id", "caption", "length" }

\* keys a serialized spec may lack
MissingFields == { {}, {"multi_sharing"}, {"audio_muted"}, {"pdg_hash_info"} }

SourceTypes == { "Feed", "Story", "Reel" }

NoLocation ==
  [present |-> FALSE, facebook_places_id |-> PyNone, lat |-> None, lng |-> None, name |-> None]

Locations ==
  { NoLocation } \union
  { [present |-> TRUE, facebook_places_id |-> f, lat |-> ll[1], lng |-> ll[2], name |-> n] :
      f \in { PyNone, PyStr(<<>>), PyStr(<<"7", "7">>) },
      ll \in { <<None, None>>, <<"1.5", "2.5">>, <<"1.5", None>> },
      n \in { None, "", "cafe" } }

Devices == { None, "device" }

NoQuality == [isNone |-> TRUE, v |-> 0]
Qualities == { NoQuality } \union { [isNone |-> FALSE, v |-> q] : q \in { 0 - 5, 0, 70, 100 } }

StreamIds == { "s1", "s2" }

\* resp.json() of the Start request
StartResponses == { EmptyDict } \union { [k \in {"stream_id"} |-> s] : s \in StreamIds }

\* resp.json() of a Transfer GET
TransferResponses ==
  { EmptyDict } \union
  { [k \in {"stream_id"} |-> s] : s \in StreamIds } \union
  { [k \in {"segment-start-offset"} |-> <<"9">>] }

Venues ==
  { <<>>,
    << [external_id |-> PyInt(123)] >>,
    << [external_id |-> PyStr(<<"a", "b", "c">>)] >>,
    << [external_id |-> PyStr(<<"1", "2", "3">>)], [external_id |-> PyInt(45)] >> }

\* resp.json() of location_search
SearchResponses ==
  { [status |-> st, hasVenues |-> FALSE, venues |-> <<>>] : st \in { "ok", "error" } } \union
  { [status |-> st, hasVenues |-> TRUE, venues |-> v] : st \in { "ok", "error" }, v \in Venues }

\* ------------------------------------------------------------------- state
VARIABLES
  entry,     \* entry[c]: the public method call c runs
  obj,       \* obj[c]: the spec object the caller passed to call c
  quality,   \* quality[c]: the quality argument of post_post
  pc,        \* pc[c]: the request call c waits for, or ready/done/failed
  reqs,      \* reqs[c]: the requests call c has passed to _request
  headers,   \* headers[c]: local of _upload_video_in_chunks
  offset,    \* offset[c]: local of _upload_video_in_chunks
  fpos,      \* fpos[c]: position of the file object of _bytes_from_file
  chunk,     \* chunk[c]: the chunk the generator has yielded
  as_dict,   \* as_dict[c]: local of post_post, _finish/_configure_video
  resp,      \* resp[c]: resp.json() of the last response the call decoded
  raised,    \* raised[c]: the exception that left the call, None if none
  client,    \* self.state and self.device_profile, shared by all calls
  ncalls     \* ncalls[c]: the publish calls made before with the spec object

vars ==
  <<entry, obj, quality, pc, reqs, headers, offset, fpos, chunk, as_dict, resp, raised,
    client, ncalls>>

NoChunk == [start |-> 0, len |-> 0]

VideoObj(size, thumb, missing, uid) ==
  [file_size |-> size, thumbnail_path |-> thumb, fields |-> VideoFields \ missing,
   upload_id |-> uid, source_type |-> "Feed", location |-> NoLocation, device |-> None]

PostObj(st, loc, dev, uid) ==
  [file_size |-> 0, thumbnail_path |-> [isPath |-> FALSE, s |-> <<>>], fields |-> {},
   upload_id |-> uid, source_type |-> st, location |-> loc, device |-> dev]

\* upload_id of a spec object: absent or supplied by the caller
UploadIds == { None, "u" }

VideoObjs ==
  { VideoObj(n, t, m, u) :
      n \in FileSizes, t \in ThumbnailPaths, m \in MissingFields, u \in UploadIds }

PostObjs ==
  { PostObj(st, loc, dev, u) :
      st \in SourceTypes, loc \in Locations, dev \in Devices, u \in UploadIds }

\* self.state.session_id and the Device built from self.device_profile
Client == [session_id |-> "session", device_profile |-> "profile_device"]

Locals ==
  /\ reqs = [c \in Calls |-> <<>>]
  /\ headers = [c \in Calls |-> EmptyDict]
  /\ offset = [c \in Calls |-> 0]
  /\ fpos = [c \in Calls |-> 0]
  /\ chunk = [c \in Calls |-> NoChunk]
  /\ as_dict = [c \in Calls |-> EmptyDict]
  /\ resp = [c \in Calls |-> EmptyDict]
  /\ raised = [c \in Calls |-> None]

Shared ==
  /\ client = Client
  /\ ncalls = [c \in Calls |-> 0]

\* one publish call; the second slot is not used
Init ==
  /\ \E e \in { "post_post", "post_video" } :
       /\ entry = [c \in Calls |-> IF c = 1 THEN e ELSE "none"]
       /\ \E o \in (IF e = "post_post" THEN PostObjs ELSE VideoObjs) :
            obj = [c \in Calls |-> IF c = 1 THEN o ELSE PostObj("Feed", NoLocation, None, None)]
       /\ \E q \in (IF e = "post_post" THEN Qualities ELSE { NoQuality }) :
            quality = [c \in Calls |-> IF c = 1 THEN q ELSE NoQuality]
  /\ pc = [c \in Calls |-> IF c = 1 THEN "ready" ELSE "absent"]
  /\ Locals
  /\ Shared

\* ---------------------------------------------------------------- requests
\* a call of self._request(...); result is pending until the transport
\* returns ("ok") or raises ("error")
Request(op, method, endpoint, phase, hdrs, data) ==
  [op |-> op, method |-> method, endpoint |-> endpoint, phase |-> phase,
   headers |-> hdrs, data |-> data, result |-> "pending"]

Returned(t) == [t EXCEPT ![Len(t)].result = "ok"]

Waiting ==
  { "start", "transfer_get", "transfer_post", "end", "thumbnail", "finish",
    "configure_video", "upload", "search", "configure" }

\* quality or 70
QualityOr(q) == IF q.isNone \/ q.v = 0 THEN DefaultQuality ELSE q.v

\* PostMixin._upload_image: the request it passes to the transport
upload_image(op, entity_name, entity_type, session_id, upload_id, q) ==
  Request(op, "POST", <<"https://i.instagram.com/rupload_igphoto/", entity_name>>, "",
          [k \in { "x-fb-photo-waterfall-id", "x-entity-length", "x-entity-name",
                   "x-instagram-rupload-params", "x-entity-type", "offset",
                   "scene_capture_type", "creation_logger_session_id" } |->
             CASE k = "x-fb-photo-waterfall-id" -> "waterfall"
               [] k = "x-entity-length" -> "length"
               [] k = "x-entity-name" -> entity_name
               [] k = "x-instagram-rupload-params" ->
                    json_dumps(build_default_rupload_params(upload_id, QualityOr(q)))
               [] k = "x-entity-type" -> entity_type
               [] k = "offset" -> <<"0">>
               [] k = "scene_capture_type" -> "standard"
               [] k = "creation_logger_session_id" -> session_id],
          [bytes |-> "file"])

\* obj.fill(self) (structs, outside post.py): an absent upload_id is generated
\* and stored in the spec object, which is returned
fill(o) == [o EXCEPT !.upload_id = IF @ = None THEN "{generated}" ELSE @]

\* --------------------------------------------------------------- post_video
\* a retry context that counts the earlier uploads of the spec object
start_retry_context_Counts ==
  [num_step_auto_retry |-> 0, num_reupload |-> ncalls[1], num_step_manual_retry |-> 0]

\* the retry_context literal of _upload_video_in_chunks
start_retry_context ==
  [num_step_auto_retry |-> 0, num_reupload |-> 0, num_step_manual_retry |-> 0]

\* the Start request of _upload_video_in_chunks (height, width and duration
\* of rupload_params are not modelled)
StartRequest(o) ==
  Request("start", "POST", "rupload_igvideo/{uuid}/", "start",
          [k \in { "x-instagram-rupload-params" } |->
             json_dumps([upload_id |-> o.upload_id,
                         retry_context |-> json_dumps(start_retry_context),
                         media_type |-> "2"])],
          [bytes |-> "empty"])

post_video(c) ==
  /\ pc[c] = "ready"
  /\ entry[c] = "post_video"
  /\ reqs' = [reqs EXCEPT ![c] = Append(@, StartRequest(obj[c]))]
  /\ pc' = [pc EXCEPT ![c] = "start"]
  /\ UNCHANGED <<client, ncalls, resp, entry, obj, quality, headers, offset, fpos, chunk, as_dict, raised>>

\* ReadLen with a read that drops a final chunk shorter than the chunk size
ReadLen_DropsPartial(size, pos) == IF size - pos < ChunkSize THEN 0 ELSE ChunkSize

\* f.read(chunksize): the number of bytes read at position pos of a file of
\* the given size
ReadLen(size, pos) == IF size - pos < ChunkSize THEN size - pos ELSE ChunkSize

\* ThumbnailAccepted with png among the accepted types
ThumbnailAccepted_WithPng(p) ==
  get_image_type(p) \in { <<"j", "p", "g">>, <<"j", "p", "e", "g">>, <<"p", "n", "g">> }

\* the image type check of _upload_video_thumbnail
ThumbnailAccepted(p) ==
  get_image_type(p) \in { <<"j", "p", "g">>, <<"j", "p", "e", "g">> }

EndRequest(hdrs) ==
  Request("end", "POST", "rupload_igvideo/{uuid}?segmented=true&phase=end", "end",
          hdrs, [bytes |-> "none"])

\* upload_video_thumbnail without the End request: the thumbnail is uploaded
\* while the segmented session is still open
upload_video_thumbnail_NoEnd(c, t, hdrs) ==
  IF ThumbnailAccepted(obj[c].thumbnail_path)
  THEN /\ reqs' = [reqs EXCEPT ![c] =
                     Append(t, upload_image("thumbnail", "{uuid}",
                                            <<"image/", get_image_type(obj[c].thumbnail_path)>>,
                                            client.session_id, "{time}",
                                            [isNone |-> FALSE, v |-> 0]))]
       /\ pc' = [pc EXCEPT ![c] = "thumbnail"]
       /\ raised' = raised
  ELSE /\ reqs' = [reqs EXCEPT ![c] = t]
       /\ pc' = [pc EXCEPT ![c] = "failed"]
       /\ raised' = [raised EXCEPT ![c] = "ValueError"]

\* _upload_video_thumbnail up to its first request, entered with the trace t
\* and the headers returned by _upload_video_in_chunks
upload_video_thumbnail(c, t, hdrs) ==
  IF ThumbnailAccepted(obj[c].thumbnail_path)
  THEN /\ reqs' = [reqs EXCEPT ![c] = Append(t, EndRequest(hdrs))]
       /\ pc' = [pc EXCEPT ![c] = "end"]
       /\ raised' = raised
  ELSE /\ reqs' = [reqs EXCEPT ![c] = t]
       /\ pc' = [pc EXCEPT ![c] = "failed"]
       /\ raised' = [raised EXCEPT ![c] = "ValueError"]

TransferGet(hdrs) ==
  Request("transfer_get", "GET", "rupload_igvideo/{uuid}?segmented=true&phase=transfer",
          "transfer", hdrs, [bytes |-> "none"])

\* ForChunk with a read that does not advance the file position
ForChunk_NoAdvance(c, t, hdrs) ==
  LET n == ReadLen(obj[c].file_size, fpos[c])
  IN IF n > 0
     THEN /\ chunk' = [chunk EXCEPT ![c] = [start |-> fpos[c], len |-> n]]
          /\ fpos' = fpos
          /\ reqs' = [reqs EXCEPT ![c] = Append(t, TransferGet(hdrs))]
          /\ pc' = [pc EXCEPT ![c] = "transfer_get"]
          /\ raised' = raised
     ELSE /\ UNCHANGED <<chunk, fpos>>
          /\ upload_video_thumbnail(c, t, hdrs)

\* the head of the for loop over _bytes_from_file: the next chunk is read and
\* its Transfer GET issued, or the generator is exhausted and post_video goes
\* on to _upload_video_thumbnail
ForChunk(c, t, hdrs) ==
  LET n == ReadLen(obj[c].file_size, fpos[c])
  IN IF n > 0
     THEN /\ chunk' = [chunk EXCEPT ![c] = [start |-> fpos[c], len |-> n]]
          /\ fpos' = [fpos EXCEPT ![c] = @ + n]
          /\ reqs' = [reqs EXCEPT ![c] = Append(t, TransferGet(hdrs))]
          /\ pc' = [pc EXCEPT ![c] = "transfer_get"]
          /\ raised' = raised
     ELSE /\ UNCHANGED <<chunk, fpos>>
          /\ upload_video_thumbnail(c, t, hdrs)

\* the Start request returns: headers = {'stream_id': resp.json()['stream_id']}
upload_video_in_chunks_AfterStart(c) ==
  /\ pc[c] = "start"
  /\ \E r \in StartResponses :
       /\ resp' = [resp EXCEPT ![c] = r]
       /\ IF "stream_id" \in DOMAIN r
          THEN LET hdrs == [k \in { "stream_id" } |-> r["stream_id"]]
               IN /\ headers' = [headers EXCEPT ![c] = hdrs]
                  /\ offset' = [offset EXCEPT ![c] = 0]
                  /\ ForChunk(c, Returned(reqs[c]), hdrs)
          ELSE /\ reqs' = [reqs EXCEPT ![c] = Returned(@)]
               /\ pc' = [pc EXCEPT ![c] = "failed"]
               /\ raised' = [raised EXCEPT ![c] = "KeyError"]
               /\ UNCHANGED <<headers, offset, fpos, chunk>>
  /\ UNCHANGED <<client, ncalls, entry, obj, quality, as_dict>>

\* the fixed markers of the Transfer POST
SegmentHeaders(off) ==
  [k \in { "segment-type", "x-entity-type", "offset", "segment-start-offset" } |->
     CASE k = "segment-type" -> 3
       [] k = "x-entity-type" -> "video/mp4"
       [] k = "offset" -> <<"0">>
       [] k = "segment-start-offset" -> IntToStr(off)]

\* {**headers, **resp.json(), **{...}}
TransferHeaders(hdrs, r, off) == Merge(Merge(hdrs, r), SegmentHeaders(off))

TransferPost(hdrs, r, off, data) ==
  Request("transfer_post", "POST", "rupload_igvideo/{uuid}?segmented=true&phase=transfer",
          "transfer", TransferHeaders(hdrs, r, off),
          [bytes |-> "chunk", start |-> data.start, len |-> data.len])

\* the Transfer GET returns: the Transfer POST of the same chunk is issued
upload_video_in_chunks_AfterGet(c) ==
  /\ pc[c] = "transfer_get"
  /\ \E r \in TransferResponses :
       /\ resp' = [resp EXCEPT ![c] = r]
       /\ reqs' = [reqs EXCEPT ![c] =
                     Append(Returned(@), TransferPost(headers[c], r, offset[c], chunk[c]))]
  /\ pc' = [pc EXCEPT ![c] = "transfer_post"]
  /\ UNCHANGED <<client, ncalls, entry, obj, quality, headers, offset, fpos, chunk, as_dict, raised>>

\* upload_video_in_chunks_AfterPost without the update of offset
upload_video_in_chunks_AfterPost_KeepsOffset(c) ==
  /\ pc[c] = "transfer_post"
  /\ offset' = offset
  /\ ForChunk(c, Returned(reqs[c]), headers[c])
  /\ UNCHANGED <<client, ncalls, resp, entry, obj, quality, headers, as_dict>>

\* the Transfer POST returns: offset += len(chunk), then the next iteration
upload_video_in_chunks_AfterPost(c) ==
  /\ pc[c] = "transfer_post"
  /\ offset' = [offset EXCEPT ![c] = @ + chunk[c].len]
  /\ ForChunk(c, Returned(reqs[c]), headers[c])
  /\ UNCHANGED <<client, ncalls, resp, entry, obj, quality, headers, as_dict>>

\* the End request returns: the thumbnail is uploaded with _upload_image,
\* upload id str(time.time()) and quality 0
upload_video_thumbnail_AfterEnd(c) ==
  /\ pc[c] = "end"
  /\ reqs' = [reqs EXCEPT ![c] =
                Append(Returned(@),
                       upload_image("thumbnail", "{uuid}",
                                    <<"image/", get_image_type(obj[c].thumbnail_path)>>,
                                    client.session_id, "{time}",
                                    [isNone |-> FALSE, v |-> 0]))]
  /\ pc' = [pc EXCEPT ![c] = "thumbnail"]
  /\ UNCHANGED <<client, ncalls, resp, entry, obj, quality, headers, offset, fpos, chunk, as_dict, raised>>

\* obj.fill(self).to_dict() of a PostFeedVideo
to_dict(o) == [k \in o.fields |-> "value"]

FinishRemoved ==
  << "path", "thumbnail_path", "creation_logger_session_id", "multi_sharing",
     "height", "width", "quality_info", "pdg_hash_info" >>

\* ConfigureRemoved as the list of _finish_video_upload
ConfigureRemoved_AsFinish ==
  << "path", "thumbnail_path", "creation_logger_session_id", "multi_sharing",
     "height", "width", "quality_info", "pdg_hash_info" >>

ConfigureRemoved ==
  << "path", "thumbnail_path", "audio_muted", "height", "width",
     "quality_info", "pdg_hash_info" >>

\* _finish_video_upload and _configure_video: both serialize the spec, remove
\* their list of fields and post to media/upload_finish/?video=1
FinishOrConfigure(c, op, to_remove) ==
  LET r == remove_from_dict(to_dict(fill(obj[c])), to_remove)
  IN /\ obj' = [obj EXCEPT ![c] = fill(@)]
     /\ IF r.raised = None
        THEN /\ as_dict' = [as_dict EXCEPT ![c] = r.dict]
             /\ reqs' = [reqs EXCEPT ![c] =
                           Append(Returned(@),
                                  Request(op, "POST", "media/upload_finish/?video=1", "",
                                          EmptyDict, [dict |-> r.dict]))]
             /\ pc' = [pc EXCEPT ![c] = op]
             /\ raised' = raised
        ELSE /\ as_dict' = as_dict
             /\ reqs' = [reqs EXCEPT ![c] = Returned(@)]
             /\ pc' = [pc EXCEPT ![c] = "failed"]
             /\ raised' = [raised EXCEPT ![c] = r.raised]

\* the thumbnail upload returns: _finish_video_upload
finish_video_upload(c) ==
  /\ pc[c] = "thumbnail"
  /\ FinishOrConfigure(c, "finish", FinishRemoved)
  /\ UNCHANGED <<client, ncalls, resp, entry, quality, headers, offset, fpos, chunk>>

\* the finish request returns: _configure_video
configure_video(c) ==
  /\ pc[c] = "finish"
  /\ FinishOrConfigure(c, "configure_video", ConfigureRemoved)
  /\ UNCHANGED <<client, ncalls, resp, entry, quality, headers, offset, fpos, chunk>>

\* the configure request returns: post_video returns
post_video_Return(c) ==
  /\ pc[c] = "configure_video"
  /\ reqs' = [reqs EXCEPT ![c] = Returned(@)]
  /\ pc' = [pc EXCEPT ![c] = "done"]
  /\ UNCHANGED <<client, ncalls, resp, entry, obj, quality, headers, offset, fpos, chunk, as_dict, raised>>

\* transport_error with a retry: the failed request is issued again
transport_error_Retries(c) ==
  /\ pc[c] \in Waiting
  /\ reqs' = [reqs EXCEPT ![c] =
                Append([@ EXCEPT ![Len(@)].result = "error"],
                       [@[Len(@)] EXCEPT !.result = "pending"])]
  /\ UNCHANGED <<client, ncalls, resp, entry, obj, quality, pc, headers, offset, fpos, chunk, as_dict, raised>>

\* the transport raises for the request the call waits for: no caller in
\* post.py catches, the exception leaves the publish call
transport_error(c) ==
  /\ pc[c] \in Waiting
  /\ reqs' = [reqs EXCEPT ![c] = [@ EXCEPT ![Len(@)].result = "error"]]
  /\ pc' = [pc EXCEPT ![c] = "failed"]
  /\ raised' = [raised EXCEPT ![c] = "TransportError"]
  /\ UNCHANGED <<client, ncalls, resp, entry, obj, quality, headers, offset, fpos, chunk, as_dict>>

\* ---------------------------------------------------------------- post_post
\* obj.fill(self).to_dict() of a PostFeed or PostStory
post_to_dict(o) ==
  [k \in { "image_path", "x_fb_waterfall_id", "entity_length", "entity_name",
           "entity_type", "upload_id", "source_type", "caption" } |->
     CASE k = "upload_id" -> o.upload_id
       [] k = "source_type" -> o.source_type
       [] OTHER -> "value"]

\* as_dict.pop(k) for the arguments of _upload_image
Popped(d) ==
  [k \in (DOMAIN d) \ { "image_path", "x_fb_waterfall_id", "entity_length",
                        "entity_name", "entity_type" } |-> d[k]]

\* SetDevice that builds the Device even when the spec object has one
SetDevice_Overwrites(o, profile) == [o EXCEPT !.device = profile.device_profile]

\* if obj.device is None: obj.device = Device(self.device_profile...)
SetDevice(o, profile) ==
  [o EXCEPT !.device = IF @ = None THEN profile.device_profile ELSE @]

\* post_post up to the image upload request
post_post(c) ==
  /\ pc[c] = "ready"
  /\ entry[c] = "post_post"
  /\ as_dict' = [as_dict EXCEPT ![c] = Popped(post_to_dict(fill(obj[c])))]
  /\ obj' = [obj EXCEPT ![c] = SetDevice(fill(@), client)]
  /\ reqs' = [reqs EXCEPT ![c] =
                Append(@, upload_image("upload", "entity", "image/jpeg", client.session_id,
                                       fill(obj[c]).upload_id, quality[c]))]
  /\ pc' = [pc EXCEPT ![c] = "upload"]
  /\ UNCHANGED <<client, ncalls, resp, entry, quality, headers, offset, fpos, chunk, raised>>

\* ConfigureEndpoint with the two endpoints exchanged
ConfigureEndpoint_Swapped(source_type) ==
  IF source_type = "Feed" THEN "media/configure_to_story/"
  ELSE IF source_type = "Story" THEN "media/configure/"
  ELSE None

\* the endpoint post_post configures the media at, None for a source_type
\* that is neither PostLocation.Feed nor PostLocation.Story
ConfigureEndpoint(source_type) ==
  IF source_type = "Feed" THEN "media/configure/"
  ELSE IF source_type = "Story" THEN "media/configure_to_story/"
  ELSE None

\* the retry_context header of post_post
configure_retry_context ==
  [num_reupload |-> 0, num_step_auto_retry |-> 0, num_step_manual_retry |-> 0]

\* the end of post_post, entered with the trace t, the payload d and the
\* spec object o: the configure request, or the exception of the else branch
Configure(c, t, d, o) ==
  LET endpoint == ConfigureEndpoint(o.source_type)
      payload == IF o.location.present
                 THEN Merge(d, [k \in { "location" } |-> json_dumps(o.location)])
                 ELSE d
  IN /\ as_dict' = [as_dict EXCEPT ![c] = payload]
     /\ IF endpoint # None
        THEN /\ reqs' = [reqs EXCEPT ![c] =
                           Append(t, Request("configure", "POST", endpoint, "",
                                             [k \in { "retry_context" } |->
                                                json_dumps(configure_retry_context)],
                                             [dict |-> payload]))]
             /\ pc' = [pc EXCEPT ![c] = "configure"]
             /\ raised' = raised
        ELSE /\ reqs' = [reqs EXCEPT ![c] = t]
             /\ pc' = [pc EXCEPT ![c] = "failed"]
             /\ raised' = [raised EXCEPT ![c] = "Exception"]

\* not obj.location.facebook_places_id
Unresolved(loc) == loc.facebook_places_id \in { PyNone, PyStr(<<>>) }

\* the query of the location_search request of _request_fb_places_id, of kind
\* "ValueError" when the function raises ValueError instead
SearchQuery(loc) ==
  IF loc.lat = None \/ loc.lng = None
  THEN IF loc.name = None
       THEN [kind |-> "ValueError", search_query |-> None, latitude |-> None, longitude |-> None]
       ELSE [kind |-> "name", search_query |-> loc.name, latitude |-> None, longitude |-> None]
  ELSE [kind |-> "latlng", search_query |-> IF loc.name \in { None, "" } THEN None ELSE loc.name,
        latitude |-> loc.lat, longitude |-> loc.lng]

\* post_post_AfterUpload that searches for every location, resolved or not
post_post_AfterUpload_AlwaysSearches(c) ==
  /\ pc[c] = "upload"
  /\ IF obj[c].location.present
     THEN LET query == SearchQuery(obj[c].location)
          IN IF query.kind = "ValueError"
             THEN /\ reqs' = [reqs EXCEPT ![c] = Returned(@)]
                  /\ pc' = [pc EXCEPT ![c] = "failed"]
                  /\ raised' = [raised EXCEPT ![c] = "ValueError"]
                  /\ as_dict' = as_dict
             ELSE /\ reqs' = [reqs EXCEPT ![c] =
                                Append(Returned(@),
                                       Request("location_search", "GET", "location_search", "",
                                               EmptyDict, [query |-> query]))]
                  /\ pc' = [pc EXCEPT ![c] = "search"]
                  /\ UNCHANGED <<raised, as_dict>>
     ELSE Configure(c, Returned(reqs[c]), as_dict[c], obj[c])
  /\ UNCHANGED <<client, ncalls, resp, entry, obj, quality, headers, offset, fpos, chunk>>

\* the image upload returns: the location is resolved if needed, then the
\* media is configured
post_post_AfterUpload(c) ==
  /\ pc[c] = "upload"
  /\ IF obj[c].location.present /\ Unresolved(obj[c].location)
     THEN LET query == SearchQuery(obj[c].location)
          IN IF query.kind = "ValueError"
             THEN /\ reqs' = [reqs EXCEPT ![c] = Returned(@)]
                  /\ pc' = [pc EXCEPT ![c] = "failed"]
                  /\ raised' = [raised EXCEPT ![c] = "ValueError"]
                  /\ as_dict' = as_dict
             ELSE /\ reqs' = [reqs EXCEPT ![c] =
                                Append(Returned(@),
                                       Request("location_search", "GET", "location_search", "",
                                               EmptyDict, [query |-> query]))]
                  /\ pc' = [pc EXCEPT ![c] = "search"]
                  /\ UNCHANGED <<raised, as_dict>>
     ELSE Configure(c, Returned(reqs[c]), as_dict[c], obj[c])
  /\ UNCHANGED <<client, ncalls, resp, entry, obj, quality, headers, offset, fpos, chunk>>

\* PlacesId that adopts the last venue instead of the first
PlacesId_LastVenue(as_json) ==
  IF as_json.status # "ok" THEN [raised |-> "BadResponse", id |-> PyNone]
  ELSE IF ~as_json.hasVenues THEN [raised |-> "KeyError", id |-> PyNone]
  ELSE IF as_json.venues = <<>> THEN [raised |-> "IndexError", id |-> PyNone]
  ELSE [raised |-> None, id |-> str(as_json.venues[Len(as_json.venues)].external_id)]

\* lines 76-80 of _request_fb_places_id on the decoded response
PlacesId(as_json) ==
  IF as_json.status # "ok" THEN [raised |-> "BadResponse", id |-> PyNone]
  ELSE IF ~as_json.hasVenues THEN [raised |-> "KeyError", id |-> PyNone]
  ELSE IF as_json.venues = <<>> THEN [raised |-> "IndexError", id |-> PyNone]
  ELSE [raised |-> None, id |-> str(as_json.venues[1].external_id)]

\* the location search returns: the identifier is stored in the spec object
\* and the media is configured
post_post_AfterSearch(c) ==
  /\ pc[c] = "search"
  /\ \E as_json \in SearchResponses :
       LET r == PlacesId(as_json)
       IN /\ resp' = [resp EXCEPT ![c] = as_json]
          /\ IF r.raised = None
             THEN LET o == [obj[c] EXCEPT !.location.facebook_places_id = r.id]
                  IN /\ obj' = [obj EXCEPT ![c] = o]
                     /\ Configure(c, Returned(reqs[c]), as_dict[c], o)
             ELSE /\ reqs' = [reqs EXCEPT ![c] = Returned(@)]
                  /\ pc' = [pc EXCEPT ![c] = "failed"]
                  /\ raised' = [raised EXCEPT ![c] = r.raised]
                  /\ UNCHANGED <<obj, as_dict>>
  /\ UNCHANGED <<client, ncalls, entry, quality, headers, offset, fpos, chunk>>

\* the configure request returns: post_post returns its response
post_post_Return(c) ==
  /\ pc[c] = "configure"
  /\ reqs' = [reqs EXCEPT ![c] = Returned(@)]
  /\ pc' = [pc EXCEPT ![c] = "done"]
  /\ UNCHANGED <<client, ncalls, resp, entry, obj, quality, headers, offset, fpos, chunk, as_dict, raised>>

\* ------------------------------------------------------------ specification
\* the caller publishes again with the spec object of a call that has
\* returned or failed: a new call with fresh locals
publish_again(c) ==
  /\ pc[c] \in { "done", "failed" }
  /\ ncalls[c] + 1 < MaxCalls
  /\ ncalls' = [ncalls EXCEPT ![c] = @ + 1]
  /\ pc' = [pc EXCEPT ![c] = "ready"]
  /\ reqs' = [reqs EXCEPT ![c] = <<>>]
  /\ headers' = [headers EXCEPT ![c] = EmptyDict]
  /\ offset' = [offset EXCEPT ![c] = 0]
  /\ fpos' = [fpos EXCEPT ![c] = 0]
  /\ chunk' = [chunk EXCEPT ![c] = NoChunk]
  /\ as_dict' = [as_dict EXCEPT ![c] = EmptyDict]
  /\ resp' = [resp EXCEPT ![c] = EmptyDict]
  /\ raised' = [raised EXCEPT ![c] = None]
  /\ UNCHANGED <<client, entry, obj, quality>>

Next ==
  \E c \in Calls :
    \/ publish_again(c)
    \/ post_video(c)
    \/ upload_video_in_chunks_AfterStart(c)
    \/ upload_video_in_chunks_AfterGet(c)
    \/ upload_video_in_chunks_AfterPost(c)
    \/ upload_video_thumbnail_AfterEnd(c)
    \/ finish_video_upload(c)
    \/ configure_video(c)
    \/ post_video_Return(c)
    \/ post_post(c)
    \/ post_post_AfterUpload(c)
    \/ post_post_AfterSearch(c)
    \/ post_post_Return(c)
    \/ transport_error(c)

Spec == Init /\ [][Next]_vars

\* two concurrent post_video calls on distinct spec objects
ConcSizes == { 1, ChunkSize + 1 }

InitConc ==
  /\ entry = [c \in Calls |-> "post_video"]
  /\ \E n1, n2 \in ConcSizes :
       obj = [c \in Calls |->
                VideoObj(IF c = 1 THEN n1 ELSE n2,
                         [isPath |-> FALSE, s |-> Chars("t", ".", "j", "p", "g", "")], {}, "u")]
  /\ quality = [c \in Calls |-> NoQuality]
  /\ pc = [c \in Calls |-> "ready"]
  /\ Locals
  /\ Shared

NextConc ==
  \E c \in Calls :
    \/ post_video(c)
    \/ upload_video_in_chunks_AfterStart(c)
    \/ upload_video_in_chunks_AfterGet(c)
    \/ upload_video_in_chunks_AfterPost(c)
    \/ upload_video_thumbnail_AfterEnd(c)
    \/ finish_video_upload(c)
    \/ configure_video(c)
    \/ post_video_Return(c)
    \/ transport_error(c)

SpecConc == InitConc /\ [][NextConc]_vars

\* post_video calls, one after the other, on one spec object that has not
\* been published before
InitVideo == Init /\ entry[1] = "post_video" /\ obj[1].upload_id = None

NextVideo ==
  \/ NextConc
  \/ \E c \in Calls : publish_again(c)

\* the transport answers every request and the caller's thread is scheduled
SpecLive == InitVideo /\ [][NextVideo]_vars /\ WF_vars(NextVideo)

\* ------------------------------------------------------------------ claims
Count(t, op) == Cardinality({ i \in DOMAIN t : t[i].op = op })

Last(t) == t[Len(t)]

\* ceil(S / 1024)
Ceil(S) == (S + ChunkSize - 1) \div ChunkSize

RECURSIVE TransferPairs(_)
TransferPairs(n) ==
  IF n = 0 THEN <<>> ELSE <<"transfer_get", "transfer_post">> \o TransferPairs(n - 1)

\* the requests of a post_video call that transfers n chunks
ExpectedOps(n) ==
  <<"start">> \o TransferPairs(n) \o <<"end", "thumbnail", "finish", "configure_video">>

PhaseOf(op) ==
  CASE op = "start" -> "start"
    [] op \in { "transfer_get", "transfer_post" } -> "transfer"
    [] op = "end" -> "end"
    [] OTHER -> ""

MethodOf(op) == IF op = "transfer_get" THEN "GET" ELSE "POST"

\* C1: the requests of a post_video call are, at every moment, a prefix of
\* Start, N x (Transfer GET, Transfer POST), End, thumbnail upload, finish,
\* configure, with N the number of chunks of the file; every request but the
\* last one has returned when the next is issued; a call that returns has
\* issued the whole sequence.
C1_VideoTrace ==
  \A c \in Calls : entry[c] = "post_video" =>
    LET t == reqs[c]
        e == ExpectedOps(Ceil(obj[c].file_size))
    IN /\ Len(t) <= Len(e)
       /\ \A i \in DOMAIN t :
            /\ t[i].op = e[i]
            /\ t[i].phase = PhaseOf(e[i])
            /\ t[i].method = MethodOf(e[i])
            /\ i < Len(t) => t[i].result = "ok"
       /\ pc[c] = "done" => (Len(t) = Len(e) /\ Last(t).result = "ok")

C1_Witness ==
  /\ entry[1] = "post_video"
  /\ pc[1] = "done"
  /\ obj[1].file_size = ChunkSize + 1
  /\ Len(reqs[1]) = 9

\* C2: a post_post call issues at most one image upload and at most one
\* configure request, the configure request after the upload has returned
\* and at media/configure/ for Feed, media/configure_to_story/ for Story; a
\* call that returns has issued exactly one of each.
C2_ImageTrace ==
  \A c \in Calls : entry[c] = "post_post" =>
    LET t == reqs[c]
    IN /\ Count(t, "upload") <= 1
       /\ Count(t, "configure") <= 1
       /\ \A i \in DOMAIN t : t[i].op = "configure" =>
            /\ \E j \in 1..(i - 1) : t[j].op = "upload" /\ t[j].result = "ok"
            /\ obj[c].source_type \in { "Feed", "Story" }
            /\ obj[c].source_type = "Feed" => t[i].endpoint = "media/configure/"
            /\ obj[c].source_type = "Story" => t[i].endpoint = "media/configure_to_story/"
       /\ pc[c] = "done" =>
            /\ Count(t, "upload") = 1
            /\ Count(t, "configure") = 1
            /\ Last(t).op = "configure"

C2_Witness ==
  /\ entry[1] = "post_post"
  /\ pc[1] = "done"
  /\ obj[1].source_type = "Story"
  /\ Last(reqs[1]).endpoint = "media/configure_to_story/"

\* C3: a request for which the transport raised is the last request of its
\* call: the call has failed with the transport's error and issues nothing
\* after it.
C3_ErrorIsTerminal ==
  \A c \in Calls : \A i \in DOMAIN reqs[c] :
    reqs[c][i].result = "error" =>
      /\ i = Len(reqs[c])
      /\ pc[c] = "failed"
      /\ raised[c] = "TransportError"

C3_Witness ==
  /\ entry[1] = "post_video"
  /\ obj[1].file_size > ChunkSize
  /\ Len(reqs[1]) = 3
  /\ Last(reqs[1]).op = "transfer_post"
  /\ Last(reqs[1]).result = "error"
  /\ pc[1] = "failed"

\* the for loop of _upload_video_in_chunks has ended
LoopEnded(c) ==
  \/ \E i \in DOMAIN reqs[c] : reqs[c][i].op = "end"
  \/ pc[c] = "failed" /\ raised[c] = "ValueError"

\* C4: the Transfer GETs and the Transfer POSTs of a post_video call never
\* exceed ceil(S / 1024) each and are exactly that many once the loop has
\* ended; for S > 0 the segment-start-offset of the last Transfer POST is the
\* decimal numeral of S minus the length of its chunk.
C4_ChunkCount ==
  \A c \in Calls : entry[c] = "post_video" =>
    LET t == reqs[c]
        S == obj[c].file_size
        posts == { i \in DOMAIN t : t[i].op = "transfer_post" }
    IN /\ Count(t, "transfer_get") <= Ceil(S)
       /\ Count(t, "transfer_post") <= Ceil(S)
       /\ LoopEnded(c) =>
            /\ Count(t, "transfer_get") = Ceil(S)
            /\ Count(t, "transfer_post") = Ceil(S)
            /\ S > 0 =>
                 /\ posts # {}
                 /\ LET last == t[CHOOSE i \in posts : \A j \in posts : j <= i]
                    IN last.headers["segment-start-offset"] = IntToStr(S - last.data.len)

C4_Witness ==
  /\ entry[1] = "post_video"
  /\ obj[1].file_size = 2 * ChunkSize
  /\ LoopEnded(1)
  /\ Count(reqs[1], "transfer_post") = 2

\* the character sequence s ends with the sequence suffix
EndsWith(s, suffix) ==
  /\ Len(s) >= Len(suffix)
  /\ SubSeq(s, Len(s) - Len(suffix) + 1, Len(s)) = suffix

\* C5: a post_video call whose thumbnail path ends in .png or .gif fails, and
\* when its validation error is raised the call has issued no request; with
\* a path ending in .jpg or .jpeg no validation error is raised.
C5_ThumbnailValidatedFirst ==
  \A c \in Calls : entry[c] = "post_video" =>
    LET p == obj[c].thumbnail_path.s
    IN /\ (EndsWith(p, <<".", "p", "n", "g">>) \/ EndsWith(p, <<".", "g", "i", "f">>)) =>
            /\ pc[c] # "done"
            /\ raised[c] = "ValueError" => reqs[c] = <<>>
       /\ (EndsWith(p, <<".", "j", "p", "g">>) \/ EndsWith(p, <<".", "j", "p", "e", "g">>)) =>
            raised[c] # "ValueError"

\* C6: a post_post call whose source_type is neither Feed nor Story fails,
\* and when its error is raised the call has issued no request.
C6_TargetValidatedFirst ==
  \A c \in Calls :
    (entry[c] = "post_post" /\ obj[c].source_type \notin { "Feed", "Story" }) =>
      /\ pc[c] # "done"
      /\ raised[c] = "Exception" => reqs[c] = <<>>

\* C7: a post_post call whose location has no facebook_places_id, no
\* latitude/longitude pair and no name fails, and when its validation error
\* is raised the call has issued no request.
C7_LocationValidatedFirst ==
  \A c \in Calls :
    LET loc == obj[c].location
    IN (/\ entry[c] = "post_post"
        /\ loc.present
        /\ Unresolved(loc)
        /\ (loc.lat = None \/ loc.lng = None)
        /\ loc.name = None) =>
         /\ pc[c] # "done"
         /\ raised[c] = "ValueError" => reqs[c] = <<>>

\* the location_search request of call c has returned
SearchReturned(c) ==
  \E i \in DOMAIN reqs[c] : reqs[c][i].op = "location_search" /\ reqs[c][i].result = "ok"

DigitValue(d) == (CHOOSE i \in DOMAIN Digits : Digits[i] = d) - 1

\* the number a sequence of decimal digits denotes
RECURSIVE DecimalValue(_)
DecimalValue(s) ==
  IF s = <<>> THEN 0
  ELSE 10 * DecimalValue(SubSeq(s, 1, Len(s) - 1)) + DigitValue(s[Len(s)])

\* id is the str that str(e) denotes: e itself when e is a str, the decimal
\* numeral of e when e is a (non-negative) int
IsStringOf(id, e) ==
  /\ id.t = "str"
  /\ IF e.t = "str" THEN id.v = e.v
     ELSE /\ id.v # <<>>
          /\ \A i \in DOMAIN id.v : \E j \in DOMAIN Digits : Digits[j] = id.v[i]
          /\ DecimalValue(id.v) = e.v

\* C8: once the location search has returned with status "ok" and a venue,
\* the facebook_places_id of the location is the string of the first venue's
\* external_id; once it has returned with another status the call has failed
\* with BadResponse, the search is its last request and the identifier is
\* still unresolved.
C8_LocationResolution ==
  \A c \in Calls : (entry[c] = "post_post" /\ SearchReturned(c)) =>
    LET r == resp[c]
    IN /\ (r.status = "ok" /\ r.hasVenues /\ r.venues # <<>>) =>
            /\ IsStringOf(obj[c].location.facebook_places_id, r.venues[1].external_id)
            /\ raised[c] # "BadResponse"
       /\ r.status # "ok" =>
            /\ pc[c] = "failed"
            /\ raised[c] = "BadResponse"
            /\ Last(reqs[c]).op = "location_search"
            /\ Unresolved(obj[c].location)

C8_Witness ==
  /\ entry[1] = "post_post"
  /\ SearchReturned(1)
  /\ resp[1].status = "ok"
  /\ Len(resp[1].venues) = 2
  /\ obj[1].location.facebook_places_id = PyStr(<<"1", "2", "3">>)
  /\ pc[1] = "done"

\* C9: once the location search has returned with status "ok" and no venue,
\* the call has failed with BadResponse and has issued no configure request.
C9_NoVenueIsBadResponse ==
  \A c \in Calls :
    (/\ entry[c] = "post_post"
     /\ SearchReturned(c)
     /\ resp[c].status = "ok"
     /\ (~resp[c].hasVenues \/ resp[c].venues = <<>>)) =>
      /\ raised[c] = "BadResponse"
      /\ Count(reqs[c], "configure") = 0

\* the sum of the chunk lengths of the Transfer POSTs before request i
RECURSIVE BytesBefore(_, _)
BytesBefore(t, i) ==
  IF i <= 1 THEN 0
  ELSE BytesBefore(t, i - 1) +
       (IF t[i - 1].op = "transfer_post" THEN t[i - 1].data.len ELSE 0)

\* C10: with two concurrent post_video calls, every Transfer and End request
\* of a call carries the stream_id its own Start request returned, and every
\* segment-start-offset is the number of bytes of the call's own file sent
\* before.
C10_SessionsIsolated ==
  \A c \in Calls : \A i \in DOMAIN reqs[c] :
    LET r == reqs[c][i]
    IN /\ r.op \in { "transfer_get", "transfer_post", "end" } =>
            r.headers["stream_id"] = headers[c]["stream_id"]
       /\ r.op = "transfer_post" =>
            /\ r.headers["segment-start-offset"] = IntToStr(BytesBefore(reqs[c], i))
            /\ BytesBefore(reqs[c], i) + r.data.len <= obj[c].file_size

AllZero(rc) ==
  /\ rc.num_reupload = 0
  /\ rc.num_step_auto_retry = 0
  /\ rc.num_step_manual_retry = 0

\* the value a json_dumps string encodes
json_loads(j) == j[2]

\* C11: in every call, first or repeated with the same spec object, after a
\* success or a failure, the retry context of every image upload (rupload
\* params), of every post_post configure request (header) and of every Start
\* request (rupload params) has its three counters equal to 0.
C11_RetryContextZero ==
  \A c \in Calls : \A i \in DOMAIN reqs[c] :
    LET r == reqs[c][i]
    IN /\ r.op \in { "upload", "thumbnail", "start" } =>
            AllZero(json_loads(json_loads(r.headers["x-instagram-rupload-params"]).retry_context))
       /\ r.op = "configure" => AllZero(json_loads(r.headers["retry_context"]))

C11_Witness ==
  /\ entry[1] = "post_video"
  /\ ncalls[1] = 1
  /\ Len(reqs[1]) >= 1
  /\ reqs[1][1].op = "start"

\* a step changes of the spec object of call c at most the device, the
\* upload_id and the facebook_places_id, each only when it was absent
FrameOfStep(c) ==
  LET o == obj[c]
      n == obj'[c]
  IN /\ n = [o EXCEPT !.device = n.device,
                      !.upload_id = n.upload_id,
                      !.location.facebook_places_id = n.location.facebook_places_id]
     /\ n.device # o.device => o.device = None
     /\ n.upload_id # o.upload_id => o.upload_id = None
     /\ n.location.facebook_places_id # o.location.facebook_places_id => Unresolved(o.location)

\* the written fields as the caller finds them when the call has returned
WritesVisible(c) ==
  pc[c] = "done" =>
    /\ obj[c].upload_id # None
    /\ entry[c] = "post_post" =>
         /\ obj[c].device # None
         /\ obj[c].location.present => ~Unresolved(obj[c].location)

\* C12: no step of a publish call changes the shared session/device state or
\* a field of the spec object other than an absent device, an absent
\* upload_id and an unresolved facebook_places_id; when the call has returned
\* the spec object holds the written values.
C12_OnlyAllowedWrites ==
  /\ [][client' = client /\ \A c \in Calls : FrameOfStep(c)]_vars
  /\ [](\A c \in Calls : WritesVisible(c))

C12_Witness ==
  /\ entry[1] = "post_post"
  /\ pc[1] = "done"
  /\ obj[1].device = Client.device_profile
  /\ obj[1].upload_id = "{generated}"
  /\ obj[1].location.facebook_places_id = PyStr(<<"a", "b", "c">>)

\* the indices of the Transfer POSTs of a trace
TransferPosts(t) == { i \in DOMAIN t : t[i].op = "transfer_post" }

\* C13: the segment-start-offset of every Transfer POST is the decimal
\* numeral of the sum of the lengths of the chunks posted before it (0 for
\* the first), the offsets strictly increase, every body is the run of file
\* bytes that starts where the previous body ended, and once the loop has
\* ended the bodies cover the whole file.
C13_OffsetsAndOrder ==
  \A c \in Calls : entry[c] = "post_video" =>
    LET t == reqs[c]
    IN /\ \A i \in TransferPosts(t) :
            /\ t[i].headers["segment-start-offset"] = IntToStr(BytesBefore(t, i))
            /\ t[i].data.start = BytesBefore(t, i)
            /\ t[i].data.len > 0
            /\ \A j \in TransferPosts(t) :
                 j < i => DecimalValue(t[j].headers["segment-start-offset"])
                            < DecimalValue(t[i].headers["segment-start-offset"])
       /\ LoopEnded(c) => BytesBefore(t, Len(t) + 1) = obj[c].file_size

C13_Witness ==
  /\ entry[1] = "post_video"
  /\ obj[1].file_size = ChunkSize + 1
  /\ LoopEnded(1)
  /\ Cardinality(TransferPosts(reqs[1])) = 2
  /\ offset[1] = ChunkSize + 1

\* C14: every Transfer GET, every Transfer POST and the End request of a
\* post_video call carry the stream_id of the Start response, whatever the
\* Transfer GET responses contain.
C14_StreamIdOnEveryRequest ==
  \A c \in Calls : \A i \in DOMAIN reqs[c] :
    reqs[c][i].op \in { "transfer_get", "transfer_post", "end" } =>
      /\ "stream_id" \in DOMAIN reqs[c][i].headers
      /\ reqs[c][i].headers["stream_id"] = headers[c]["stream_id"]

\* the serialized fields that the payload of request r of call c lacks
RemovedIn(c, r) == obj[c].fields \ DOMAIN r.data.dict

\* C15 (as claimed): the fields the finish request removes are those the
\* configure request removes plus audio_muted; both remove the logger
\* session id and the multi-sharing flag, and the configure payload keeps
\* audio_muted.
C15_FinishIsConfigurePlusAudio ==
  \A c \in Calls : \A i, j \in DOMAIN reqs[c] :
    (reqs[c][i].op = "finish" /\ reqs[c][j].op = "configure_video") =>
      /\ RemovedIn(c, reqs[c][i]) = RemovedIn(c, reqs[c][j]) \union { "audio_muted" }
      /\ "audio_muted" \notin RemovedIn(c, reqs[c][j])
      /\ { "creation_logger_session_id", "multi_sharing" } \subseteq RemovedIn(c, reqs[c][j])

\* C15 (amended): the finish request removes path, thumbnail_path, the logger
\* session id, multi_sharing, height, width, quality_info and pdg_hash_info
\* and keeps audio_muted; the configure request removes path, thumbnail_path,
\* audio_muted, height, width, quality_info and pdg_hash_info and keeps the
\* logger session id and multi_sharing.
C15_RemovalLists ==
  \A c \in Calls : \A i \in DOMAIN reqs[c] :
    LET r == reqs[c][i]
    IN /\ r.op = "finish" =>
            /\ RemovedIn(c, r) =
                 { "path", "thumbnail_path", "creation_logger_session_id", "multi_sharing",
                   "height", "width", "quality_info", "pdg_hash_info" }
            /\ obj[c].fields \intersect { "audio_muted" } \subseteq DOMAIN r.data.dict
       /\ r.op = "configure_video" =>
            /\ RemovedIn(c, r) =
                 { "path", "thumbnail_path", "audio_muted", "height", "width",
                   "quality_info", "pdg_hash_info" }
            /\ { "creation_logger_session_id", "multi_sharing" } \subseteq DOMAIN r.data.dict

C15_Witness ==
  /\ entry[1] = "post_video"
  /\ pc[1] = "done"
  /\ Count(reqs[1], "finish") = 1
  /\ Count(reqs[1], "configure_video") = 1
  /\ "audio_muted" \in DOMAIN reqs[1][Len(reqs[1]) - 1].data.dict

\* post_video has entered _upload_video_thumbnail: the Start request has
\* succeeded and the loop has read and posted the whole file
ThumbnailStepEntered(c) ==
  /\ entry[c] = "post_video"
  /\ "stream_id" \in DOMAIN headers[c]
  /\ fpos[c] = obj[c].file_size
  /\ pc[c] \notin { "transfer_get", "transfer_post" }
  /\ ~(raised[c] = "TransportError" /\ Last(reqs[c]).op \in { "transfer_get", "transfer_post" })

Issues(c, op) == Count(reqs'[c], op) > Count(reqs[c], op)

NeedsResolution(c) == obj[c].location.present /\ Unresolved(obj[c].location)

\* C17: post_post issues a location_search only for a location whose
\* facebook_places_id is unresolved at that moment, at most once, as its
\* second request after the image upload has returned and before any
\* configure request; it issues the configure request straight after the
\* upload only when no resolution is needed, and a resolved identifier is
\* never changed.
C17_SearchWhenUnresolved ==
  /\ [](\A c \in Calls : entry[c] = "post_post" =>
          LET t == reqs[c]
          IN /\ Count(t, "location_search") <= 1
             /\ \A i \in DOMAIN t :
                  /\ t[i].op = "location_search" =>
                       (i = 2 /\ t[1].op = "upload" /\ t[1].result = "ok")
                  /\ t[i].op = "configure" =>
                       \A j \in DOMAIN t : t[j].op = "location_search" =>
                         (j < i /\ t[j].result = "ok"))
  /\ [][\A c \in Calls :
          /\ Issues(c, "location_search") => (pc[c] = "upload" /\ NeedsResolution(c))
          /\ (Issues(c, "configure") /\ pc[c] = "upload") => ~NeedsResolution(c)
          /\ (/\ pc[c] = "upload"
              /\ pc'[c] # "upload"
              /\ NeedsResolution(c)
              /\ raised'[c] \notin { "TransportError", "ValueError" }) =>
               Issues(c, "location_search")
          /\ (obj[c].location.present /\ ~Unresolved(obj[c].location)) =>
               (~Issues(c, "location_search") /\ obj'[c].location = obj[c].location)]_vars

C17_Witness ==
  /\ entry[1] = "post_post"
  /\ ncalls[1] = 1
  /\ pc[1] = "done"
  /\ Count(reqs[1], "location_search") = 0
  /\ obj[1].location.facebook_places_id = PyStr(<<"a", "b", "c">>)

\* the quality of the image_compression parameters of an image upload
SentQuality(r) ==
  json_loads(json_loads(r.headers["x-instagram-rupload-params"]).image_compression).quality

\* C18: the quality sent with the image upload of post_post is the decimal
\* numeral of the quality argument, whatever integer it is; it is "70" only
\* for a quality that is None.
C18_QualityPassedThrough ==
  \A c \in Calls : \A i \in DOMAIN reqs[c] :
    reqs[c][i].op = "upload" =>
      SentQuality(reqs[c][i]) =
        (IF quality[c].isNone THEN <<"7", "0">> ELSE IntToStr(quality[c].v))

\* the keys a removal list names
Listed(to_remove) == { to_remove[i] : i \in DOMAIN to_remove }

\* C19: field removal cannot fail: no removal ends a call with an error, a
\* call whose thumbnail upload (or finish request) was answered issues the
\* finish (or configure) request whichever listed fields the serialized
\* specification lacks, and the payload is the serialized specification
\* minus the listed keys.
C19_RemovalCannotFail ==
  /\ [](\A c \in Calls :
          \A i \in DOMAIN reqs[c] :
               /\ reqs[c][i].op = "finish" =>
                    DOMAIN reqs[c][i].data.dict = obj[c].fields \ Listed(FinishRemoved)
               /\ reqs[c][i].op = "configure_video" =>
                    DOMAIN reqs[c][i].data.dict = obj[c].fields \ Listed(ConfigureRemoved))
  /\ [][\A c \in Calls :
          /\ (pc[c] = "thumbnail" /\ pc'[c] # "thumbnail"
                /\ raised'[c] # "TransportError") =>
               (pc'[c] = "finish" /\ raised'[c] = None)
          /\ (pc[c] = "finish" /\ pc'[c] # "finish"
                /\ raised'[c] # "TransportError") =>
               (pc'[c] = "configure_video" /\ raised'[c] = None)]_vars

\* the iterations the Transfer loop of call c has entered
Iterations(c) == Count(reqs[c], "transfer_get")

\* C20: when every request is answered, a post_video call eventually returns
\* or fails, and its Transfer loop never enters more than ceil(S / 1024)
\* iterations, S being the size of the video file.
C20_PostVideoTerminates ==
  /\ [](\A c \in Calls : entry[c] = "post_video" =>
          Iterations(c) <= Ceil(obj[c].file_size))
  /\ \A c \in Calls :
       (entry[c] = "post_video" /\ pc[c] = "ready") ~> (pc[c] \in { "done", "failed" })

C20_Witness ==
  /\ entry[1] = "post_video"
  /\ obj[1].file_size > ChunkSize
  /\ pc[1] = "done"
  /\ Iterations(1) = Ceil(obj[1].file_size)
  /\ Iterations(1) >= 2
====
